---------------------------- MODULE Spec2Model ----------------------------
(***************************************************************************)
(* Model of the streaming row scanner of package couchdb (couchdb.go):     *)
(* the RowScanner type, its background readLoop goroutine, and the public  *)
(* Scan / Row / Err / Close operations; and the Row type with its methods  *)
(* HasValue / HasDoc / Value / Doc.                                        *)
(*                                                                         *)
(* The response body is a sequence of byte tokens.  A token stands for one *)
(* byte, except the row-content tokens "a" and "b", which stand for the    *)
(* member list of a JSON object ("id":"a","key":"k1" and                   *)
(* "id":"b","key":"k2"), and "h", which stands for the text of the header  *)
(* line before its terminator.                                             *)
(*                                                                         *)
(* Channel operations follow the Go runtime: a select first polls its      *)
(* cases and takes a ready one; only when none is ready does the goroutine *)
(* park, and a parked goroutine is resumed by the peer that completes one  *)
(* of its cases (a rendezvous partner, or close of a channel).             *)
(***************************************************************************)
EXTENDS Integers, Sequences, FiniteSets, TLC

\* Largest number of lines that follow the header line in a generated body.
MaxLines == 2

-----------------------------------------------------------------------------
(* Bytes, lines and bodies *)

CR == "\r"
LF == "\n"

\* var delim byte = '\n'
delim == LF

\* Mutant of endMarker: the marker without its carriage return.
endMarkerLF == <<"}", LF>>

\* var endMarker = []byte("}\r\n")
endMarker == <<"}", CR, LF>>

\* The two literals compared against in readLoop's exhaustion test.
closeLine == <<"}", "]", CR, LF>>
emptyLine == <<CR, LF>>

\* Row-content tokens.
RowIds == {"a", "b"}

\* type Row struct
ZeroRow == [ID |-> "", Key |-> "", Value_ |-> "nil", Doc_ |-> "nil"]

\* The bytes of one JSON row object.
RowBytes(id) == <<"{", id, "}">>

HeaderLine == <<"h", CR, LF>>

\* A row line followed by another row, and the line of the last row.
CommaRow(id) == RowBytes(id) \o <<",", CR, LF>>
MarkerRow(id) == RowBytes(id) \o <<CR, LF>>

\* The line that follows the last row in the server's output.
TrailerLine == <<"]", "}", LF>>

\* The lines a generated body is made of, each ending with the delimiter.
RowLines == {CommaRow(id) : id \in RowIds} \cup {MarkerRow(id) : id \in RowIds}

OtherLines == {closeLine, emptyLine, TrailerLine}

LineKinds == RowLines \cup OtherLines

\* What the body ends with after its last complete line: nothing and a clean
\* end of stream, or an unterminated fragment and a failed read.
Tails == { [frag |-> <<>>, err |-> "EOF"],
           [frag |-> <<"{", "a">>, err |-> "ErrUnexpectedEOF"] }

RECURSIVE SeqsUpTo(_, _)
SeqsUpTo(S, n) ==
    IF n = 0 THEN {<<>>}
    ELSE LET prev == SeqsUpTo(S, n - 1)
         IN  prev \cup {Append(s, x) : s \in {p \in prev : Len(p) = n - 1}, x \in S}

RECURSIVE Flatten(_)
Flatten(ls) == IF ls = <<>> THEN <<>> ELSE Head(ls) \o Flatten(Tail(ls))

\* A body with LF-only line terminators and the closing bracket on the line
\* of its last row.
ScenarioLF ==
    << <<"h", LF>>, RowBytes("a") \o <<",", LF>>, RowBytes("b") \o <<"]", LF>> >>

\* The line structures of the generated bodies: no line at all, the header
\* line followed by up to MaxLines further lines, or ScenarioLF.
LineSeqs ==
    {<<>>, ScenarioLF}
      \cup {<<HeaderLine>> \o r : r \in SeqsUpTo(LineKinds, MaxLines)}

-----------------------------------------------------------------------------
(* Pure functions used by readLoop *)

\* Index of the first delim in s at or after position from, 0 when none.
IndexDelim(s, from) ==
    LET I == {i \in from..Len(s) : s[i] = delim}
    IN  IF I = {} THEN 0 ELSE CHOOSE i \in I : \A j \in I : i <= j

\* Mutant of ReadBytes: the end of the stream is taken for the end of a line.
ReadBytesNoErr(s, p, e) ==
    LET i == IndexDelim(s, p + 1)
    IN  IF i = 0
        THEN [line |-> SubSeq(s, p + 1, Len(s)), err |-> "nil", pos |-> Len(s)]
        ELSE [line |-> SubSeq(s, p + 1, i), err |-> "nil", pos |-> i]

\* bufio.Reader.ReadBytes(delim) on a source that holds bytes s, has consumed
\* the first p of them, and fails with e once the bytes run out: the data up
\* to and including the delimiter, or the data left and the error.
ReadBytes(s, p, e) ==
    LET i == IndexDelim(s, p + 1)
    IN  IF i = 0
        THEN [line |-> SubSeq(s, p + 1, Len(s)), err |-> e, pos |-> Len(s)]
        ELSE [line |-> SubSeq(s, p + 1, i), err |-> "nil", pos |-> i]

\* Mutant of HasSuffix: the start of s is compared.
HasPrefix(s, suffix) ==
    /\ Len(s) >= Len(suffix)
    /\ SubSeq(s, 1, Len(suffix)) = suffix

\* bytes.HasSuffix
HasSuffix(s, suffix) ==
    /\ Len(s) >= Len(suffix)
    /\ SubSeq(s, Len(s) - Len(suffix) + 1, Len(s)) = suffix

\* Mutant of TrimRight: the closing bracket is trimmed as well.
TrimRightBracket(s, cutset) ==
    LET K == {k \in 1..Len(s) : s[k] \notin (cutset \cup {"]"})}
    IN  IF K = {} THEN <<>>
        ELSE SubSeq(s, 1, CHOOSE k \in K : \A j \in K : j <= k)

\* bytes.TrimRight(s, cutset): s without its longest suffix made of bytes of
\* cutset.
TrimRight(s, cutset) ==
    LET K == {k \in 1..Len(s) : s[k] \notin cutset}
    IN  IF K = {} THEN <<>>
        ELSE SubSeq(s, 1, CHOOSE k \in K : \A j \in K : j <= k)

\* The struct fields a row-content token decodes to.
Fields(id) ==
    IF id = "a" THEN [ID |-> "a", Key |-> "k1", Value_ |-> "nil", Doc_ |-> "nil"]
    ELSE [ID |-> "b", Key |-> "k2", Value_ |-> "nil", Doc_ |-> "nil"]

\* Mutant of Unmarshal: the decode error is dropped.
UnmarshalIgnoreErr(data) ==
    IF Len(data) = 3 /\ data[1] = "{" /\ data[2] \in RowIds /\ data[3] = "}"
    THEN [row |-> Fields(data[2]), err |-> "nil"]
    ELSE [row |-> ZeroRow, err |-> "nil"]

\* json.Unmarshal(data, &row) into a zero Row: white space around the value is
\* skipped, an object decodes into the struct, anything else is an error.
Unmarshal(data) ==
    LET K == {k \in 1..Len(data) : data[k] \notin {" ", CR, LF}}
        lo == CHOOSE k \in K : \A j \in K : k <= j
        hi == CHOOSE k \in K : \A j \in K : j <= k
    IN  IF K # {} /\ hi - lo = 2 /\ data[lo] = "{" /\ data[lo + 1] \in RowIds
           /\ data[hi] = "}"
        THEN [row |-> Fields(data[lo + 1]), err |-> "nil"]
        ELSE IF K # {} /\ hi - lo = 1 /\ data[lo] = "{" /\ data[hi] = "}"
        THEN [row |-> ZeroRow, err |-> "nil"]
        ELSE [row |-> ZeroRow, err |-> "SyntaxError"]

-----------------------------------------------------------------------------
(* The methods of Row *)

\* The raw messages a row can carry in Value_ and Doc_: the JSON texts of a
\* number and of an object, and a text that is no JSON value (a Row built by
\* hand can hold one).
RawMessages == {"1", "{}", "{"}

\* The targets passed as v: a pointer to an int, a pointer to a map, and an
\* int passed by value.
Targets == {"*int", "*map", "int"}

\* The rows the methods are called on.
Rows == [ID : {"a"}, Key : {"k1"},
         Value_ : {"nil"} \cup RawMessages, Doc_ : {"nil"} \cup RawMessages]

\* json.Unmarshal(raw, v): the error returned and the value stored through v
\* ("unset" when nothing is stored).
UnmarshalInto(raw, v) ==
    IF raw = "{" THEN [ret |-> "SyntaxError", out |-> "unset"]
    ELSE IF v = "int" THEN [ret |-> "InvalidUnmarshalError", out |-> "unset"]
    ELSE IF (raw = "1" /\ v = "*int") \/ (raw = "{}" /\ v = "*map")
    THEN [ret |-> "nil", out |-> raw]
    ELSE [ret |-> "UnmarshalTypeError", out |-> "unset"]

\* func (r Row) HasValue() bool
HasValue(r) == r.Value_ # "nil"

\* func (r Row) HasDoc() bool
HasDoc(r) == r.Doc_ # "nil"

\* Mutant of Value: a row without a value decodes to the zero value.
ValueZeroOnNil(r, v) ==
    IF r.Value_ # "nil" THEN UnmarshalInto(r.Value_, v)
    ELSE [ret |-> "nil", out |-> "unset"]

\* func (r Row) Value(v interface{}) error
Value(r, v) ==
    IF r.Value_ # "nil" THEN UnmarshalInto(r.Value_, v)
    ELSE [ret |-> "value is nil.", out |-> "unset"]

\* func (r Row) Doc(v interface{}) error
Doc(r, v) ==
    IF r.Doc_ # "nil" THEN UnmarshalInto(r.Doc_, v)
    ELSE [ret |-> "doc is nil.", out |-> "unset"]

NoCall == [op |-> "none", v |-> "none", ret |-> "none", out |-> "unset"]

-----------------------------------------------------------------------------
(* State *)

VARIABLES
    lines,       \* the lines the body was built from (fixed)
    body,        \* resp.Body: all the bytes of the response (fixed)
    bodyErr,     \* the error a read past the last byte returns (fixed)
    pos,         \* number of bytes consumed from the body
    bodyCloses,  \* number of resp.Body.Close() calls made
    rpc,         \* reader: position in readLoop
    line,        \* reader: local variable line
    rrow,        \* reader: local variable row
    last,        \* reader: local variable last
    rerr,        \* reader: the argument of the pending setErr call and the
                 \* return statement that follows the call
    cause,       \* reader: the return statement readLoop left through
    quit,        \* s.quit is closed
    rowsClosed,  \* s.rows is closed
    err,         \* s.err
    mu,          \* s.mu: "free" or its holder
    cpc,         \* consumer: position in Scan / Err
    pending,     \* consumer: the select case its Scan was resumed with
    srow,        \* s.row
    scanRet,     \* result of the last Scan that returned ("none" before)
    errRet,      \* result of the last Err that returned ("none" before)
    kpc,         \* closer: position in Close
    closeRet,    \* result of the last Close that returned ("none" before)
    panicked,    \* the process died of a runtime panic
    delivered,   \* history: the rows Scan returned true for, in order
    everFalse,   \* history: some Scan has returned false
    closeSnap,   \* history: at the first Close call, had Scan been called, was
                 \* a Scan parked, was the reader done (NoSnap before)
    lateScan,    \* history: the Scan in progress was called after Close
    decoded,     \* history: the rows json.Unmarshal has decoded, in order
    rw,          \* the Row that HasValue / HasDoc / Value / Doc are called on
    rcall,       \* the last call made on rw and its result (NoCall before)
    rhist        \* history: every call made on rw, with its result

vars == <<lines, body, bodyErr, pos, bodyCloses, rpc, line, rrow, last, rerr, cause,
          quit, rowsClosed, err, mu, cpc, pending, srow, scanRet, errRet,
          kpc, closeRet, panicked, delivered, everFalse, closeSnap, lateScan,
          decoded, rw, rcall, rhist>>

bodyVars == <<lines, body, bodyErr>>
readerVars == <<pos, bodyCloses, rpc, line, rrow, last, rerr, cause>>
consumerVars == <<cpc, pending, srow, scanRet, errRet, delivered, everFalse, lateScan>>
closerVars == <<kpc, closeRet, closeSnap>>
rowVars == <<rw, rcall, rhist>>
scannerVars == <<bodyVars, readerVars, quit, rowsClosed, err, mu, consumerVars,
                 closerVars, panicked, decoded>>

NoPending == [case |-> "none", row |-> ZeroRow, ok |-> FALSE]

NoErr == [err |-> "nil", site |-> "none"]

\* A Scan call has been made.
Scanned == scanRet # "none" \/ cpc \in {"scanParked", "scanRet"}

NoSnap == [called |-> FALSE, scanned |-> FALSE, parked |-> FALSE, done |-> FALSE]

\* newRowScanner: open channels, a free mutex, a nil error, and the reader
\* goroutine about to read the header line.
newRowScanner ==
    /\ lines \in LineSeqs
    /\ \E t \in Tails : body = Flatten(lines) \o t.frag /\ bodyErr = t.err
    /\ pos = 0
    /\ bodyCloses = 0
    /\ rpc = "header"
    /\ line = <<>>
    /\ rrow = ZeroRow
    /\ last = FALSE
    /\ rerr = NoErr
    /\ cause = "none"
    /\ quit = FALSE
    /\ rowsClosed = FALSE
    /\ err = "nil"
    /\ mu = "free"
    /\ cpc = "idle"
    /\ pending = NoPending
    /\ srow = ZeroRow
    /\ scanRet = "none"
    /\ errRet = "none"
    /\ kpc = "idle"
    /\ closeRet = "none"
    /\ panicked = FALSE
    /\ delivered = <<>>
    /\ everFalse = FALSE
    /\ closeSnap = NoSnap
    /\ lateScan = FALSE
    /\ decoded = <<>>

\* A scanner on any of the generated bodies; no method of Row is called.
Init ==
    /\ newRowScanner
    /\ rw = ZeroRow
    /\ rcall = NoCall
    /\ rhist = {}

-----------------------------------------------------------------------------
(* The reader goroutine: readLoop *)

\* A return statement of readLoop: control passes to the deferred functions.
Return(site) ==
    /\ rpc' = "deferBody"
    /\ cause' = site

\* line, err := b.ReadBytes(delim); if err != nil { s.setErr(err); return }
ReadHeader ==
    /\ ~panicked
    /\ rpc = "header"
    /\ LET r == ReadBytes(body, pos, bodyErr)
       IN  /\ pos' = r.pos
           /\ line' = r.line
           /\ IF r.err # "nil"
              THEN rpc' = "setErr" /\ rerr' = [err |-> r.err, site |-> "r376"]
              ELSE rpc' = "check" /\ rerr' = rerr
    /\ UNCHANGED <<bodyVars, rowVars, decoded, bodyCloses, rrow, last, cause, quit, rowsClosed,
                   err, mu, consumerVars, closerVars, panicked>>

\* Mutant of CheckQuit: the loop does not test s.quit before reading.
CheckQuitIgnored ==
    /\ ~panicked
    /\ rpc = "check"
    /\ rpc' = "read"
    /\ UNCHANGED <<bodyVars, rowVars, decoded, pos, line, bodyCloses, rrow, last, rerr, cause,
                   quit, rowsClosed, err, mu, consumerVars, closerVars, panicked>>

\* select { case <-s.quit: return; default: }
CheckQuit ==
    /\ ~panicked
    /\ rpc = "check"
    /\ IF quit THEN Return("r387") ELSE rpc' = "read" /\ cause' = cause
    /\ UNCHANGED <<bodyVars, rowVars, decoded, pos, line, bodyCloses, rrow, last, rerr, quit,
                   rowsClosed, err, mu, consumerVars, closerVars, panicked>>

\* line, err = b.ReadBytes(delim); if err != nil { s.setErr(err); return }
ReadLine ==
    /\ ~panicked
    /\ rpc = "read"
    /\ LET r == ReadBytes(body, pos, bodyErr)
       IN  /\ pos' = r.pos
           /\ line' = r.line
           /\ IF r.err # "nil"
              THEN rpc' = "setErr" /\ rerr' = [err |-> r.err, site |-> "r394"]
              ELSE rpc' = "frame" /\ rerr' = rerr
    /\ UNCHANGED <<bodyVars, rowVars, decoded, bodyCloses, rrow, last, cause, quit, rowsClosed,
                   err, mu, consumerVars, closerVars, panicked>>

\* The rest of the loop body up to the handoff: the exhaustion test, the
\* last-row marker, the trimming and json.Unmarshal.
Frame ==
    /\ ~panicked
    /\ rpc = "frame"
    /\ IF line = closeLine \/ line = emptyLine
       THEN /\ Return("r398")
            /\ UNCHANGED <<rrow, last, rerr, decoded>>
       ELSE LET d == Unmarshal(TrimRight(line, {",", CR, LF}))
            IN  /\ last' = HasSuffix(line, endMarker)
                /\ IF d.err # "nil"
                   THEN /\ rpc' = "setErr"
                        /\ rerr' = [err |-> d.err, site |-> "r411"]
                        /\ UNCHANGED <<rrow, cause, decoded>>
                   ELSE /\ rpc' = "send"
                        /\ rrow' = d.row
                        /\ decoded' = Append(decoded, d.row)
                        /\ UNCHANGED <<rerr, cause>>
    /\ UNCHANGED <<bodyVars, rowVars, pos, line, bodyCloses, quit, rowsClosed, err, mu,
                   consumerVars, closerVars, panicked>>

\* select case s.rows <- row, taken at once: a Scan is parked on s.rows.
SendHandoff ==
    /\ ~panicked
    /\ rpc = "send"
    /\ cpc = "scanParked"
    /\ cpc' = "scanRet"
    /\ pending' = [case |-> "rows", row |-> rrow, ok |-> TRUE]
    /\ IF last THEN Return("r417") ELSE rpc' = "check" /\ cause' = cause
    /\ UNCHANGED <<bodyVars, rowVars, decoded, pos, line, bodyCloses, rrow, last, rerr, quit,
                   rowsClosed, err, mu, srow, scanRet, errRet, delivered,
                   everFalse, lateScan, closerVars, panicked>>

\* select case <-s.quit, taken at once: s.quit is closed.
SendQuit ==
    /\ ~panicked
    /\ rpc = "send"
    /\ quit
    /\ Return("r420")
    /\ UNCHANGED <<bodyVars, rowVars, decoded, pos, line, bodyCloses, rrow, last, rerr, quit,
                   rowsClosed, err, mu, consumerVars, closerVars, panicked>>

\* Mutant of SendPark: s.rows has a buffer, the send completes without a
\* receiver and the loop goes on.
SendBuffered ==
    /\ ~panicked
    /\ rpc = "send"
    /\ cpc # "scanParked"
    /\ ~quit
    /\ IF last THEN Return("r417") ELSE rpc' = "check" /\ cause' = cause
    /\ UNCHANGED <<bodyVars, rowVars, decoded, pos, line, bodyCloses, rrow, last, rerr, quit,
                   rowsClosed, err, mu, consumerVars, closerVars, panicked>>

\* Mutant of SendPark: the select has a default case that returns.
SendGiveUp ==
    /\ ~panicked
    /\ rpc = "send"
    /\ cpc # "scanParked"
    /\ ~quit
    /\ Return("r420")
    /\ UNCHANGED <<bodyVars, rowVars, decoded, pos, line, bodyCloses, rrow, last, rerr, quit,
                   rowsClosed, err, mu, consumerVars, closerVars, panicked>>

\* No case of the select is ready: the reader parks on s.rows and s.quit.
SendPark ==
    /\ ~panicked
    /\ rpc = "send"
    /\ cpc # "scanParked"
    /\ ~quit
    /\ rpc' = "sendParked"
    /\ UNCHANGED <<bodyVars, rowVars, decoded, pos, line, bodyCloses, rrow, last, rerr, cause, quit,
                   rowsClosed, err, mu, consumerVars, closerVars, panicked>>

\* setErr: s.mu.Lock()
SetErrLock ==
    /\ ~panicked
    /\ rpc = "setErr"
    /\ mu = "free"
    /\ mu' = "reader"
    /\ rpc' = "setErrW"
    /\ UNCHANGED <<bodyVars, rowVars, decoded, pos, line, bodyCloses, rrow, last, rerr, cause, quit,
                   rowsClosed, err, consumerVars, closerVars, panicked>>

\* Mutant of SetErrWrite: the error is not stored.
SetErrWriteDropped ==
    /\ ~panicked
    /\ rpc = "setErrW"
    /\ mu' = "free"
    /\ Return(rerr.site)
    /\ UNCHANGED <<bodyVars, rowVars, decoded, pos, line, bodyCloses, rrow, last, rerr, quit,
                   rowsClosed, err, consumerVars, closerVars, panicked>>

\* Mutant of SetErrWrite: the caller does not return after setErr, the loop
\* goes on with the next line.
SetErrWriteContinue ==
    /\ ~panicked
    /\ rpc = "setErrW"
    /\ err' = rerr.err
    /\ mu' = "free"
    /\ IF pos = Len(body) THEN Return(rerr.site) ELSE rpc' = "check" /\ cause' = cause
    /\ UNCHANGED <<bodyVars, rowVars, decoded, pos, line, bodyCloses, rrow, last, rerr, quit,
                   rowsClosed, consumerVars, closerVars, panicked>>

\* setErr: s.err = err, the deferred s.mu.Unlock(), and the caller's return.
SetErrWrite ==
    /\ ~panicked
    /\ rpc = "setErrW"
    /\ err' = rerr.err
    /\ mu' = "free"
    /\ Return(rerr.site)
    /\ UNCHANGED <<bodyVars, rowVars, decoded, pos, line, bodyCloses, rrow, last, rerr, quit,
                   rowsClosed, consumerVars, closerVars, panicked>>

\* Mutant of DeferBody: the body is drained but not closed.
DeferBodyDrainOnly ==
    /\ ~panicked
    /\ rpc = "deferBody"
    /\ pos' = Len(body)
    /\ rpc' = "deferRows"
    /\ UNCHANGED <<bodyVars, rowVars, decoded, bodyCloses, line, rrow, last, rerr, cause,
                   quit, rowsClosed, err, mu, consumerVars, closerVars, panicked>>

\* defer func() { io.Copy(ioutil.Discard, s.resp.Body); s.resp.Body.Close() }()
DeferBody ==
    /\ ~panicked
    /\ rpc = "deferBody"
    /\ pos' = Len(body)
    /\ bodyCloses' = bodyCloses + 1
    /\ rpc' = "deferRows"
    /\ UNCHANGED <<bodyVars, rowVars, decoded, line, rrow, last, rerr, cause, quit, rowsClosed,
                   err, mu, consumerVars, closerVars, panicked>>

\* Mutant of DeferCloseRows: the two deferred functions run in the other
\* order, s.rows is closed before the body is drained and closed.
DeferCloseRowsFirst ==
    /\ ~panicked
    /\ \/ /\ rpc = "deferBody" /\ ~rowsClosed
          /\ rowsClosed' = TRUE
          /\ rpc' = rpc
          /\ IF cpc = "scanParked"
             THEN /\ cpc' = "scanRet"
                  /\ pending' = [case |-> "rows", row |-> ZeroRow, ok |-> FALSE]
             ELSE UNCHANGED <<cpc, pending>>
       \/ /\ rpc = "deferRows"
          /\ rpc' = "done"
          /\ UNCHANGED <<rowsClosed, cpc, pending>>
    /\ UNCHANGED <<bodyVars, rowVars, decoded, pos, line, bodyCloses, rrow, last, rerr, cause,
                   quit, err, mu, srow, scanRet, errRet, delivered, everFalse,
                   lateScan, closerVars, panicked>>

\* defer close(s.rows): a Scan parked on s.rows is resumed with ok = false.
DeferCloseRows ==
    /\ ~panicked
    /\ rpc = "deferRows"
    /\ rowsClosed' = TRUE
    /\ rpc' = "done"
    /\ IF cpc = "scanParked"
       THEN /\ cpc' = "scanRet"
            /\ pending' = [case |-> "rows", row |-> ZeroRow, ok |-> FALSE]
       ELSE UNCHANGED <<cpc, pending>>
    /\ UNCHANGED <<bodyVars, rowVars, decoded, pos, line, bodyCloses, rrow, last, rerr, cause, quit,
                   err, mu, srow, scanRet, errRet, delivered, everFalse,
                   lateScan, closerVars, panicked>>

Reader ==
    \/ ReadHeader \/ CheckQuit \/ ReadLine \/ Frame
    \/ SendHandoff \/ SendQuit \/ SendPark
    \/ SetErrLock \/ SetErrWrite
    \/ DeferBody \/ DeferCloseRows

-----------------------------------------------------------------------------
(* The consumer: Scan and Err *)

\* Scan's select takes case s.row, ok = <-s.rows: the reader is parked in its
\* send, which completes; the reader resumes after its select.
ScanRecv ==
    /\ ~panicked
    /\ cpc = "idle"
    /\ rpc = "sendParked"
    /\ cpc' = "scanRet"
    /\ pending' = [case |-> "rows", row |-> rrow, ok |-> TRUE]
    /\ lateScan' = quit
    /\ IF last THEN Return("r417") ELSE rpc' = "check" /\ cause' = cause
    /\ UNCHANGED <<bodyVars, rowVars, decoded, pos, line, bodyCloses, rrow, last, rerr, quit,
                   rowsClosed, err, mu, srow, scanRet, errRet, delivered,
                   everFalse, closerVars, panicked>>

\* Scan's select takes case s.row, ok = <-s.rows on the closed channel.
ScanClosed ==
    /\ ~panicked
    /\ cpc = "idle"
    /\ rowsClosed
    /\ cpc' = "scanRet"
    /\ pending' = [case |-> "rows", row |-> ZeroRow, ok |-> FALSE]
    /\ lateScan' = quit
    /\ UNCHANGED <<bodyVars, rowVars, decoded, readerVars, quit, rowsClosed, err, mu, srow,
                   scanRet, errRet, delivered, everFalse, closerVars, panicked>>

\* Scan's select takes case <-s.quit.
ScanQuit ==
    /\ ~panicked
    /\ cpc = "idle"
    /\ quit
    /\ cpc' = "scanRet"
    /\ pending' = [case |-> "quit", row |-> ZeroRow, ok |-> FALSE]
    /\ lateScan' = quit
    /\ UNCHANGED <<bodyVars, rowVars, decoded, readerVars, quit, rowsClosed, err, mu, srow,
                   scanRet, errRet, delivered, everFalse, closerVars, panicked>>

\* Mutant of ScanPark: Scan's select has a default case that returns false.
ScanNoBlock ==
    /\ ~panicked
    /\ cpc = "idle"
    /\ rpc # "sendParked"
    /\ ~rowsClosed
    /\ ~quit
    /\ cpc' = "scanRet"
    /\ pending' = [case |-> "quit", row |-> ZeroRow, ok |-> FALSE]
    /\ lateScan' = quit
    /\ UNCHANGED <<bodyVars, rowVars, decoded, readerVars, quit, rowsClosed, err, mu, srow,
                   scanRet, errRet, delivered, everFalse, closerVars, panicked>>

\* No case of Scan's select is ready: the consumer parks.
ScanPark ==
    /\ ~panicked
    /\ cpc = "idle"
    /\ rpc # "sendParked"
    /\ ~rowsClosed
    /\ ~quit
    /\ cpc' = "scanParked"
    /\ lateScan' = quit
    /\ UNCHANGED <<bodyVars, rowVars, decoded, readerVars, quit, rowsClosed, err, mu, pending,
                   srow, scanRet, errRet, delivered, everFalse, closerVars,
                   panicked>>

\* The resumed Scan assigns s.row, ok (case <-s.rows) and returns ok, or
\* returns false (case <-s.quit).
ScanReturn ==
    /\ ~panicked
    /\ cpc = "scanRet"
    /\ cpc' = "idle"
    /\ pending' = NoPending
    /\ IF pending.case = "rows"
       THEN /\ srow' = pending.row
            /\ scanRet' = IF pending.ok THEN "true" ELSE "false"
            /\ delivered' = IF pending.ok THEN Append(delivered, pending.row)
                            ELSE delivered
            /\ everFalse' = (everFalse \/ ~pending.ok)
       ELSE /\ scanRet' = "false"
            /\ everFalse' = TRUE
            /\ UNCHANGED <<srow, delivered>>
    /\ UNCHANGED <<bodyVars, rowVars, decoded, readerVars, quit, rowsClosed, err, mu, errRet,
                   lateScan, closerVars, panicked>>

\* Err: s.mu.Lock()
ErrLock ==
    /\ ~panicked
    /\ cpc = "idle"
    /\ mu = "free"
    /\ mu' = "consumer"
    /\ cpc' = "errLocked"
    /\ UNCHANGED <<bodyVars, rowVars, decoded, readerVars, quit, rowsClosed, err, pending, srow,
                   scanRet, errRet, delivered, everFalse, lateScan,
                   closerVars, panicked>>

\* Err: return s.err, and the deferred s.mu.Unlock()
ErrRead ==
    /\ ~panicked
    /\ cpc = "errLocked"
    /\ errRet' = err
    /\ mu' = "free"
    /\ cpc' = "idle"
    /\ UNCHANGED <<bodyVars, rowVars, decoded, readerVars, quit, rowsClosed, err, pending, srow,
                   scanRet, delivered, everFalse, lateScan, closerVars,
                   panicked>>

-----------------------------------------------------------------------------
(* Close, callable from the consumer's goroutine or from another one *)

\* Mutant of CloseQuit: Close returns s.err without closing s.quit.
CloseQuitNoSignal ==
    /\ ~panicked
    /\ kpc = "idle"
    /\ ~quit
    /\ kpc' = "closeRead"
    /\ closeSnap' = [called |-> TRUE, scanned |-> Scanned,
                     parked |-> (cpc = "scanParked"), done |-> (rpc = "done")]
    /\ UNCHANGED <<bodyVars, rowVars, decoded, readerVars, quit, rowsClosed, err, mu,
                   consumerVars, closeRet, panicked>>

\* Mutant of CloseQuit: the reader's handoff does not listen on s.quit, so a
\* reader parked in its send is not resumed.
CloseQuitNoWake ==
    /\ ~panicked
    /\ kpc = "idle"
    /\ ~quit
    /\ quit' = TRUE
    /\ kpc' = "closeRead"
    /\ closeSnap' = [called |-> TRUE, scanned |-> Scanned,
                     parked |-> (cpc = "scanParked"), done |-> (rpc = "done")]
    /\ IF cpc = "scanParked"
       THEN /\ cpc' = "scanRet"
            /\ pending' = [case |-> "quit", row |-> ZeroRow, ok |-> FALSE]
       ELSE UNCHANGED <<cpc, pending>>
    /\ UNCHANGED <<bodyVars, rowVars, decoded, readerVars, rowsClosed, err, mu, srow, scanRet,
                   errRet, delivered, everFalse, lateScan, closeRet, panicked>>

\* Mutant of CloseQuit: Scan does not listen on s.quit, so a parked Scan is
\* not resumed.
CloseQuitNoWakeScan ==
    /\ ~panicked
    /\ kpc = "idle"
    /\ ~quit
    /\ quit' = TRUE
    /\ kpc' = "closeRead"
    /\ closeSnap' = [called |-> TRUE, scanned |-> Scanned,
                     parked |-> (cpc = "scanParked"), done |-> (rpc = "done")]
    /\ IF rpc = "sendParked" THEN Return("r420") ELSE UNCHANGED <<rpc, cause>>
    /\ UNCHANGED <<bodyVars, rowVars, decoded, pos, line, bodyCloses, rrow, last, rerr,
                   rowsClosed, err, mu, consumerVars, closeRet, panicked>>

\* close(s.quit) on the open channel: every goroutine parked on s.quit is
\* resumed with that case.
CloseQuit ==
    /\ ~panicked
    /\ kpc = "idle"
    /\ ~quit
    /\ quit' = TRUE
    /\ kpc' = "closeRead"
    /\ closeSnap' = [called |-> TRUE, scanned |-> Scanned,
                     parked |-> (cpc = "scanParked"), done |-> (rpc = "done")]
    /\ IF rpc = "sendParked" THEN Return("r420") ELSE UNCHANGED <<rpc, cause>>
    /\ IF cpc = "scanParked"
       THEN /\ cpc' = "scanRet"
            /\ pending' = [case |-> "quit", row |-> ZeroRow, ok |-> FALSE]
       ELSE UNCHANGED <<cpc, pending>>
    /\ UNCHANGED <<bodyVars, rowVars, decoded, pos, line, bodyCloses, rrow, last, rerr, rowsClosed,
                   err, mu, srow, scanRet, errRet, delivered, everFalse,
                   lateScan, closeRet, panicked>>

\* Mutant of ClosePanic: closing the closed channel does nothing and Close
\* goes on to return s.err.
CloseAgainReturns ==
    /\ ~panicked
    /\ kpc = "idle"
    /\ quit
    /\ kpc' = "closeRead"
    /\ UNCHANGED <<bodyVars, rowVars, decoded, readerVars, quit, rowsClosed, err, mu,
                   consumerVars, closeRet, closeSnap, panicked>>

\* close(s.quit) on the closed channel: panic "close of closed channel".
ClosePanic ==
    /\ ~panicked
    /\ kpc = "idle"
    /\ quit
    /\ panicked' = TRUE
    /\ UNCHANGED <<bodyVars, rowVars, decoded, readerVars, quit, rowsClosed, err, mu,
                   consumerVars, closerVars>>

\* Mutant of CloseRead: Close returns nil.
CloseReadNil ==
    /\ ~panicked
    /\ kpc = "closeRead"
    /\ closeRet' = "nil"
    /\ kpc' = "idle"
    /\ UNCHANGED <<bodyVars, rowVars, decoded, readerVars, quit, rowsClosed, err, mu,
                   consumerVars, closeSnap, panicked>>

\* return s.err, read without s.mu.  A read made while the reader is inside
\* setErr races with the write of s.err: it yields the old value, the new one,
\* or an interface value made of one word of each ("torn").
CloseRead ==
    /\ ~panicked
    /\ kpc = "closeRead"
    /\ IF rpc = "setErrW"
       THEN closeRet' \in {err, rerr.err, "torn"}
       ELSE closeRet' = err
    /\ kpc' = "idle"
    /\ UNCHANGED <<bodyVars, rowVars, decoded, readerVars, quit, rowsClosed, err, mu,
                   consumerVars, closeSnap, panicked>>

-----------------------------------------------------------------------------

Next ==
    \/ ReadHeader \/ CheckQuit \/ ReadLine \/ Frame
    \/ SendHandoff \/ SendQuit \/ SendPark
    \/ SetErrLock \/ SetErrWrite
    \/ DeferBody \/ DeferCloseRows
    \/ ScanRecv \/ ScanClosed \/ ScanQuit \/ ScanPark \/ ScanReturn
    \/ ErrLock \/ ErrRead
    \/ CloseQuit \/ ClosePanic \/ CloseRead

Spec == Init /\ [][Next]_vars

TypeOK ==
    /\ pos \in 0..Len(body)
    /\ rpc \in {"header", "check", "read", "frame", "send", "sendParked", "setErr",
                "setErrW", "deferBody", "deferRows", "done"}
    /\ cpc \in {"idle", "scanParked", "scanRet", "errLocked"}
    /\ kpc \in {"idle", "closeRead"}
    /\ mu \in {"free", "reader", "consumer"}
    /\ err \in {"nil", "EOF", "ErrUnexpectedEOF", "SyntaxError"}

\* Liveness is checked on the bodies made of these lines only, ending with a
\* clean end of stream (a failed read takes the same path).  The scheduler
\* runs every runnable goroutine, a read of the body eventually returns, and a
\* goroutine waiting in s.mu.Lock() eventually gets the mutex (sync.Mutex
\* hands the lock to a starving waiter).
LiveKinds == {CommaRow("a"), MarkerRow("b"), closeLine, TrailerLine}

LiveInit ==
    /\ Init
    /\ lines \in {<<>>} \cup {<<HeaderLine>> \o r : r \in SeqsUpTo(LiveKinds, MaxLines)}
    /\ bodyErr = "EOF"

LiveSpec ==
    /\ LiveInit
    /\ [][Next]_vars
    /\ WF_vars(Reader)
    /\ SF_vars(SetErrLock)
    /\ WF_vars(ScanReturn)
    /\ WF_vars(ErrRead)
    /\ WF_vars(CloseRead)

-----------------------------------------------------------------------------
(* Calls of the methods of Row, on a row of any content *)

\* The call is made and its result recorded.
Called(c) ==
    /\ rcall' = c
    /\ rhist' = rhist \cup {c}
    /\ UNCHANGED <<scannerVars, rw>>

CallHasValue ==
    Called([op |-> "HasValue", v |-> "none",
            ret |-> IF HasValue(rw) THEN "true" ELSE "false", out |-> "unset"])

CallHasDoc ==
    Called([op |-> "HasDoc", v |-> "none",
            ret |-> IF HasDoc(rw) THEN "true" ELSE "false", out |-> "unset"])

CallValue ==
    \E v \in Targets :
        LET res == Value(rw, v)
        IN  Called([op |-> "Value", v |-> v, ret |-> res.ret, out |-> res.out])

CallDoc ==
    \E v \in Targets :
        LET res == Doc(rw, v)
        IN  Called([op |-> "Doc", v |-> v, ret |-> res.ret, out |-> res.out])

RowInit ==
    /\ newRowScanner
    /\ lines = <<>>
    /\ bodyErr = "EOF"
    /\ rw \in Rows
    /\ rcall = NoCall
    /\ rhist = {}

RowNext == CallHasValue \/ CallHasDoc \/ CallValue \/ CallDoc

RowSpec == RowInit /\ [][RowNext]_vars

-----------------------------------------------------------------------------
(* The shape of a body, read off the lines it was built from *)

IsCommaRow(l) == \E id \in RowIds : l = CommaRow(id)
IsMarkerRow(l) == \E id \in RowIds : l = MarkerRow(id)
IsCloser(l) == l = closeLine \/ l = emptyLine

\* The rows of the lines that follow the header, and how the lines end: with a
\* closing or empty line, with the row that carries the last-row marker, with
\* a line that is no row ("bad"), or with no line at all ("truncated").
RECURSIVE Shape(_)
Shape(rest) ==
    IF rest = <<>> THEN [rows |-> <<>>, end |-> "truncated"]
    ELSE IF IsCloser(Head(rest)) THEN [rows |-> <<>>, end |-> "closed"]
    ELSE IF IsMarkerRow(Head(rest))
    THEN [rows |-> <<Fields(Head(rest)[2])>>, end |-> "marker"]
    ELSE IF IsCommaRow(Head(rest))
    THEN LET t == Shape(Tail(rest))
         IN  [rows |-> <<Fields(Head(rest)[2])>> \o t.rows, end |-> t.end]
    ELSE [rows |-> <<>>, end |-> "bad"]

HasHeader == lines # <<>> /\ lines[1] = HeaderLine

BodyShape == IF HasHeader THEN Shape(Tail(lines)) ELSE [rows |-> <<>>, end |-> "none"]

\* The header line, N rows separated by ",\r\n", and the closing: the last row
\* without comma, or a closing or empty line.
WellFormed == HasHeader /\ BodyShape.end \in {"closed", "marker"}

ExpectedRows == BodyShape.rows

IsPrefix(s, t) == Len(s) <= Len(t) /\ s = SubSeq(t, 1, Len(s))

\* A Scan has returned false, or has been resumed to return false.
ScanFalse == scanRet = "false" \/ (cpc = "scanRet" /\ ~pending.ok)

RowA == [ID |-> "a", Key |-> "k1", Value_ |-> "nil", Doc_ |-> "nil"]
RowB == [ID |-> "b", Key |-> "k2", Value_ |-> "nil", Doc_ |-> "nil"]

-----------------------------------------------------------------------------
(* Claims *)

\* C1: on a well-formed body with N rows and without Close, the rows Scan
\* returned true for are always a prefix of the body's rows, Row() after a
\* true Scan is the row just delivered, and once Scan returns false all N
\* rows have been delivered in order and the error slot is nil.
C1_FullScan ==
    (WellFormed /\ ~quit) =>
        /\ IsPrefix(delivered, ExpectedRows)
        /\ (scanRet = "true" => srow = ExpectedRows[Len(delivered)])
        /\ (ScanFalse => delivered = ExpectedRows /\ err = "nil")

C1_Witness ==
    /\ WellFormed /\ ~quit
    /\ ExpectedRows = <<RowB, RowA>>
    /\ delivered = ExpectedRows
    /\ scanRet = "false"
    /\ errRet = "nil"

\* C2 as stated: on the LF-only body whose last row carries the closing
\* bracket, Scan returns false only after rows a and b, with a nil error.
C2_Original ==
    (body = Flatten(ScenarioLF) /\ ~quit /\ ScanFalse) =>
        (delivered = <<RowA, RowB>> /\ err = "nil")

\* C2 amended: on that body only row a is ever delivered; without Close the
\* Scan after it returns false and the error slot holds the decode error of
\* the line of row b.
C2_ScenarioLF ==
    (body = Flatten(ScenarioLF)) =>
        /\ IsPrefix(delivered, <<RowA>>)
        /\ ((~quit /\ ScanFalse) => (delivered = <<RowA>> /\ err = "SyntaxError"))

C2_Witness ==
    /\ body = Flatten(ScenarioLF) /\ ~quit
    /\ scanRet = "false"
    /\ delivered = <<RowA>>
    /\ err = "SyntaxError"

\* Close was called before any Scan call.
ClosedFirst == closeSnap.called /\ ~closeSnap.scanned

\* C3: when Close is called before the first Scan, no Scan ever returns true
\* and no row is delivered, and the response body is eventually closed
\* (unless a second Close has panicked the process).
C3_CloseBeforeScan ==
    /\ [](ClosedFirst =>
            /\ delivered = <<>>
            /\ scanRet # "true"
            /\ ~(cpc = "scanRet" /\ pending.ok))
    /\ (ClosedFirst ~> (bodyCloses = 1 \/ panicked))

C3_Witness ==
    /\ ClosedFirst
    /\ WellFormed /\ Len(ExpectedRows) = 2
    /\ scanRet = "false"
    /\ bodyCloses = 1
    /\ ~panicked

\* The result of a Scan called after Close: false.
LateScanFalse ==
    lateScan => \/ cpc = "scanRet" /\ ~pending.ok
                \/ cpc \in {"idle", "errLocked"} /\ scanRet = "false"

\* C4: no Scan called after Close returns true, the reader is never parked at
\* the handoff once s.quit is closed, and when Close comes after a row was
\* received the reader eventually terminates with the body closed (unless a
\* second Close has panicked the process).
C4_CloseAfterPartial ==
    /\ [](LateScanFalse /\ (quit => rpc # "sendParked"))
    /\ ((quit /\ Len(delivered) >= 1)
          ~> ((rpc = "done" /\ bodyCloses = 1) \/ panicked))

C4_Witness ==
    /\ quit /\ closeSnap.scanned /\ ~closeSnap.done
    /\ WellFormed /\ Len(ExpectedRows) = 2
    /\ Len(delivered) = 1
    /\ lateScan /\ scanRet = "false"
    /\ rpc = "done" /\ bodyCloses = 1
    /\ cause \in {"r387", "r420"}
    /\ ~panicked

\* The reader has left its loop.
LeftLoop == rpc \in {"deferBody", "deferRows", "done"}

\* C5: when the line after the first j-1 rows fails to decode, only those
\* rows are ever delivered (none located after it), no row is handed off once
\* the error slot is set, and without Close the Scan after them returns false
\* with the decode error in the error slot.
C5_DecodeError ==
    /\ (err # "nil" => LeftLoop)
    /\ (BodyShape.end = "bad" =>
          /\ IsPrefix(delivered, ExpectedRows)
          /\ ((~quit /\ ScanFalse) =>
                (delivered = ExpectedRows /\ err = "SyntaxError")))

C5_Witness ==
    /\ lines = <<HeaderLine, CommaRow("a"), TrailerLine>>
    /\ ~quit
    /\ scanRet = "false"
    /\ delivered = <<RowA>>
    /\ err = "SyntaxError"

\* C6: when the stream ends or a read fails right after the first complete
\* row line, without Close the first Scan returns true, the second false, and
\* the error slot holds the read error; whenever the reader has ended on a
\* failed read the error slot holds that read error, and whenever it has ended
\* on a closing or empty line or after the last-row marker the slot is nil.
C6_Truncated ==
    /\ (BodyShape.end = "truncated" /\ Len(ExpectedRows) = 1 /\ ~quit) =>
          /\ IsPrefix(delivered, ExpectedRows)
          /\ (ScanFalse => (delivered = ExpectedRows /\ err = bodyErr))
    /\ (rpc = "done" /\ cause \in {"r376", "r394"}) => (err = bodyErr /\ err # "nil")
    /\ (rpc = "done" /\ cause \in {"r398", "r417"}) => err = "nil"

C6_Witness ==
    /\ lines = <<HeaderLine, CommaRow("a")>>
    /\ bodyErr = "ErrUnexpectedEOF"
    /\ ~quit
    /\ scanRet = "false"
    /\ delivered = <<RowA>>
    /\ err = "ErrUnexpectedEOF"

\* C7: once a Scan has returned false, every Scan that returns afterwards
\* returns false.
C7_ScanFalseSticky ==
    everFalse => (scanRet = "false" /\ ~(cpc = "scanRet" /\ pending.ok))

C7_Witness ==
    /\ everFalse
    /\ cpc = "scanRet"
    /\ quit /\ ~rowsClosed
    /\ WellFormed /\ Len(delivered) < Len(ExpectedRows)

\* C8 as stated: whenever Close was called before the reader terminated, the
\* error slot is nil after termination.
C8_Original ==
    (rpc = "done" /\ closeSnap.called /\ ~closeSnap.done) => err = "nil"

\* C8 amended: after termination the error slot holds the read error when the
\* reader ended on a failed read, the decode error when it ended on a row that
\* did not decode, and nil when it ended by exhaustion or at a cancellation
\* checkpoint; without Close it is nil exactly on a well-formed body.
C8_ErrAfterTermination ==
    rpc = "done" =>
        /\ (cause \in {"r376", "r394"} => err = bodyErr)
        /\ (cause = "r411" => err = "SyntaxError")
        /\ (cause \in {"r387", "r398", "r417", "r420"} => err = "nil")
        /\ ((~quit /\ HasHeader) => (err = "nil" <=> WellFormed))

C8_Witness ==
    /\ rpc = "done"
    /\ closeSnap.called /\ ~closeSnap.done
    /\ cause = "r411"
    /\ err = "SyntaxError"
    /\ errRet = "SyntaxError"

\* C9: a Scan that is parked when Close is called is resumed by it at once (no
\* Scan stays parked while s.quit is closed) and returns false, and the reader
\* drains and closes the body (unless a second Close has panicked the
\* process).
C9_CloseUnblocksScan ==
    /\ [](quit => cpc # "scanParked")
    /\ (closeSnap.parked
          ~> ((scanRet = "false" /\ cpc # "scanRet" /\ bodyCloses = 1) \/ panicked))

C9_Witness ==
    /\ closeSnap.parked
    /\ WellFormed /\ Len(ExpectedRows) = 2 /\ delivered = <<>>
    /\ scanRet = "false"
    /\ bodyCloses = 1
    /\ ~panicked

\* C10: once the reader is done, the body has been closed exactly once and no
\* step, a Close among them, closes it again or changes the error slot; a Scan
\* resumed from then on returns false, and a Close that returns then returns
\* the value of the error slot.
C10_CloseAfterDone ==
    /\ [](rpc = "done" => bodyCloses = 1)
    /\ [][rpc = "done" =>
            /\ bodyCloses' = bodyCloses
            /\ err' = err
            /\ ((cpc # "scanRet" /\ cpc' = "scanRet") => ~pending'.ok)
            /\ ((kpc = "closeRead" /\ kpc' = "idle") => closeRet' = err)]_vars

C10_Witness ==
    /\ closeSnap.done
    /\ kpc = "idle"
    /\ closeRet = "SyntaxError"
    /\ err = "SyntaxError"
    /\ bodyCloses = 1
    /\ lateScan /\ scanRet = "false"
    /\ ~panicked

\* The return statements of readLoop: header read error, cancellation seen
\* before a read, line read error, closing or empty line, decode error, last-row
\* marker, cancellation seen at the handoff.
Causes == {"r376", "r387", "r394", "r398", "r411", "r417", "r420"}

\* The deferred drain and close of the body has run.
BodyDone == rpc \in {"deferRows", "done"}

\* C11: the body is closed at most once; whichever return statement the
\* reader left through, the body has been drained and closed exactly once
\* before the reader closes s.rows and exits, and not before it left the loop;
\* the only step that closes the body is the reader's deferred function.
C11_BodyClosedOnce ==
    /\ [](bodyCloses = IF BodyDone THEN 1 ELSE 0)
    /\ [](BodyDone => (pos = Len(body) /\ cause \in Causes))
    /\ [](rowsClosed => (rpc = "done" /\ bodyCloses = 1))
    /\ [][bodyCloses' # bodyCloses =>
            /\ rpc = "deferBody" /\ rpc' = "deferRows"
            /\ bodyCloses' = bodyCloses + 1
            /\ <<cpc, kpc, closeRet>>' = <<cpc, kpc, closeRet>>]_vars

C11_Witness ==
    /\ rpc = "done" /\ cause = "r420"
    /\ bodyCloses = 1 /\ pos = Len(body)
    /\ closeRet = "nil" /\ kpc = "idle"
    /\ Len(delivered) = 1 /\ Len(decoded) = 2
    /\ ~panicked

\* The stream ended by exhaustion: a closing or empty line, or the last-row
\* marker.
Exhausted == cause \in {"r398", "r417"}

\* The stream broke: a failed read or a row that did not decode.
Broke == cause \in {"r376", "r394", "r411"}

\* The error the reader's return statement leaves in the error slot.
FinalErr ==
    IF cause \in {"r376", "r394"} THEN bodyErr
    ELSE IF cause = "r411" THEN "SyntaxError"
    ELSE "nil"

\* C12: while Close has not been called, as soon as a Scan is resumed to
\* return false the reader is done, the body is drained and closed, and the
\* error slot holds its final value, nil exactly when the stream ended by
\* exhaustion and non-nil exactly when it broke; nothing changes the slot or
\* closes the body afterwards, and an Err() call that returns after the false
\* Scan returns that value.
C12_ScanLoopThenErr ==
    /\ []((~quit /\ ScanFalse) =>
            /\ rpc = "done" /\ rowsClosed
            /\ bodyCloses = 1 /\ pos = Len(body)
            /\ err = FinalErr
            /\ (err = "nil" <=> Exhausted)
            /\ (err # "nil" <=> Broke))
    /\ [][(~quit /\ ScanFalse) => (err' = err /\ bodyCloses' = bodyCloses)]_vars
    /\ [][(~quit /\ scanRet = "false" /\ cpc = "errLocked" /\ cpc' = "idle") =>
            /\ errRet' = FinalErr
            /\ (errRet' = "nil" <=> Exhausted)]_vars

C12_Witness ==
    /\ ~quit /\ ~closeSnap.called
    /\ lines = <<HeaderLine, CommaRow("a"), CommaRow("b")>>
    /\ bodyErr = "EOF"
    /\ delivered = <<RowA, RowB>>
    /\ scanRet = "false" /\ cpc = "idle"
    /\ errRet = "EOF"
    /\ bodyCloses = 1

\* The calls recorded in rhist agree with call c on the result of the same
\* method with the same target.
SameAsBefore(c) ==
    \A h \in rhist : (h.op = c.op /\ h.v = c.v) => h = c

\* C13: for every row, Value returns the error "value is nil." and stores
\* nothing exactly when HasValue() is false, and returns the result of the
\* decode of the captured value when HasValue() is true; likewise Doc with
\* HasDoc(); no call changes the row, and every call returns what the same
\* call returned before.
C13_RowValueDoc ==
    /\ [](\A c \in rhist \cup {rcall} :
            /\ c.op = "HasValue" => (c.ret = "true" <=> rw.Value_ # "nil")
            /\ c.op = "HasDoc" => (c.ret = "true" <=> rw.Doc_ # "nil")
            /\ c.op = "Value" =>
                  /\ (~HasValue(rw) => (c.ret = "value is nil." /\ c.out = "unset"))
                  /\ (HasValue(rw) =>
                        (c.ret # "value is nil."
                           /\ c.ret = UnmarshalInto(rw.Value_, c.v).ret
                           /\ c.out = UnmarshalInto(rw.Value_, c.v).out))
            /\ c.op = "Doc" =>
                  /\ (~HasDoc(rw) => (c.ret = "doc is nil." /\ c.out = "unset"))
                  /\ (HasDoc(rw) =>
                        (c.ret # "doc is nil."
                           /\ c.ret = UnmarshalInto(rw.Doc_, c.v).ret
                           /\ c.out = UnmarshalInto(rw.Doc_, c.v).out)))
    /\ [][rw' = rw /\ (rcall' # rcall => SameAsBefore(rcall'))]_vars

C13_Witness ==
    /\ rw.Value_ = "nil" /\ rw.Doc_ = "{}"
    /\ rcall = [op |-> "Value", v |-> "*int", ret |-> "value is nil.", out |-> "unset"]
    /\ [op |-> "HasValue", v |-> "none", ret |-> "false", out |-> "unset"] \in rhist
    /\ [op |-> "Doc", v |-> "*map", ret |-> "nil", out |-> "{}"] \in rhist
    /\ [op |-> "Doc", v |-> "*int", ret |-> "UnmarshalTypeError", out |-> "unset"] \in rhist
    /\ rcall \in rhist

\* C14 as stated: every access to s.err is made by the holder of s.mu (the
\* reader about to write in setErr, the consumer about to read in Err, the
\* caller of Close about to read), and the read in Close never coincides with
\* the reader's write.
C14_Original ==
    /\ rpc = "setErrW" => mu = "reader"
    /\ cpc = "errLocked" => mu = "consumer"
    /\ kpc = "closeRead" => mu = "closer"
    /\ ~(kpc = "closeRead" /\ rpc = "setErrW")

\* The read of s.err in Close has raced with the write in setErr: the reader
\* holds s.mu and is about to store the error of a row that did not decode, and
\* the Close called meanwhile has returned a torn interface value.
C14_Race ==
    /\ rpc = "setErrW" /\ mu = "reader"
    /\ rerr.site = "r411"
    /\ err = "nil"
    /\ kpc = "idle" /\ closeRet = "torn"
    /\ ~panicked

\* The reader is in a call of setErr.
InSetErr == rpc \in {"setErr", "setErrW"}

\* C15: the error slot starts nil and is nil until the reader's one write: a
\* call of setErr is made with a non-nil error while the slot is nil, the slot
\* changes only by the write of that call, the reader returns after it and
\* never comes back into its loop or into setErr, and a slot that is non-nil
\* keeps its value.
C15_WriteOnce ==
    /\ [](InSetErr => (rerr.err # "nil" /\ err = "nil"))
    /\ [](err # "nil" => (LeftLoop /\ err = rerr.err))
    /\ [][err' # err =>
            /\ err = "nil" /\ err' = rerr.err
            /\ rpc = "setErrW" /\ rpc' = "deferBody"]_vars
    /\ [][LeftLoop => LeftLoop']_vars
    /\ [][err # "nil" => err' = err]_vars

C15_Witness ==
    /\ lines = <<HeaderLine, TrailerLine, TrailerLine>>
    /\ bodyErr = "ErrUnexpectedEOF"
    /\ rpc = "done"
    /\ err = "SyntaxError"
    /\ errRet = "SyntaxError"
    /\ pos = Len(body)

\* The rows a Scan has received from s.rows: those Scan has returned true for
\* and the one a resumed Scan is about to return true for.
Received ==
    IF cpc = "scanRet" /\ pending.ok THEN Append(delivered, pending.row)
    ELSE delivered

\* The reader holds a decoded row it has not handed off.
AtHandoff == rpc \in {"send", "sendParked"}

\* C16: the rows received are the rows decoded, in order, but for at most one
\* row; a row is decoded and not received only while the reader holds it at
\* the handoff or after the reader left the handoff by cancellation; whenever
\* the reader is about to test for cancellation, to read or to frame a line,
\* every decoded row has been received; and a row is decoded only when all
\* earlier ones have been received.
C16_SingleSlot ==
    /\ [](/\ IsPrefix(Received, decoded)
          /\ Len(decoded) - Len(Received) \in {0, 1})
    /\ [](Len(decoded) > Len(Received) =>
            (AtHandoff \/ (LeftLoop /\ cause = "r420")))
    /\ [](AtHandoff => (Len(decoded) = Len(Received) + 1 /\ decoded[Len(decoded)] = rrow))
    /\ [](rpc \in {"check", "read", "frame"} => decoded = Received)
    /\ [][decoded' # decoded => (decoded = Received /\ rpc = "frame" /\ rpc' = "send")]_vars

C16_Witness ==
    /\ rpc = "sendParked"
    /\ decoded = <<RowA, RowB>>
    /\ delivered = <<RowA>>
    /\ cpc = "idle" /\ scanRet = "true"
    /\ pos < Len(body)
    /\ ~quit

\* C17: once s.quit is closed the reader starts no line read (the only read it
\* can complete is the one it was in or about to make), its arrival at either
\* checkpoint, before a read or at the handoff, ends in a return, it never parks
\* at the handoff, and no row is handed off; it eventually is done with the
\* body drained and closed (unless a second Close has panicked the process).
C17_Checkpoints ==
    /\ [][quit =>
            /\ ~(rpc # "read" /\ rpc' = "read")
            /\ ((rpc \in {"check", "send"} /\ rpc' # rpc) =>
                  (rpc' = "deferBody" /\ cause' \in {"r387", "r420"}))
            /\ Received' = Received]_vars
    /\ [](quit => (rpc # "sendParked" /\ (rpc = "check" => decoded = Received)))
    /\ (quit ~> ((rpc = "done" /\ bodyCloses = 1 /\ pos = Len(body)) \/ panicked))

C17_Witness ==
    /\ quit /\ closeSnap.parked
    /\ rpc = "done" /\ cause = "r420"
    /\ decoded = <<RowA, RowB>> /\ delivered = <<RowA>>
    /\ scanRet = "false"
    /\ bodyCloses = 1
    /\ ~panicked

\* C18: on a body whose first line that is no comma-terminated row is a row
\* with the last-row marker, the rows decoded and delivered are those up to
\* and including that row, whatever lines follow it, and without Close the
\* Scan after them returns false with a nil error; the reader returns after a
\* handoff exactly when the line handed off ends with the marker, and after
\* that return it decodes nothing more.
C18_LastRowMarker ==
    /\ [](BodyShape.end = "marker" =>
            /\ IsPrefix(decoded, ExpectedRows)
            /\ IsPrefix(delivered, ExpectedRows)
            /\ ((~quit /\ ScanFalse) =>
                  (delivered = ExpectedRows /\ err = "nil" /\ cause = "r417")))
    /\ [](cause = "r417" =>
            /\ BodyShape.end = "marker"
            /\ HasSuffix(line, endMarker)
            /\ decoded = Received /\ decoded = ExpectedRows
            /\ err = "nil")
    /\ [][Received' # Received =>
            IF HasSuffix(line, endMarker)
            THEN rpc' = "deferBody" /\ cause' = "r417"
            ELSE rpc' = "check" /\ cause' = "none"]_vars
    /\ [][cause = "r417" => (decoded' = decoded /\ LeftLoop')]_vars

C18_Witness ==
    /\ lines = <<HeaderLine, MarkerRow("a"), CommaRow("b")>>
    /\ ~quit
    /\ rpc = "done" /\ cause = "r417"
    /\ delivered = <<RowA>>
    /\ scanRet = "false"
    /\ errRet = "nil"

\* A Close call makes a step: it closes s.quit or panics, or it returns.
CloseStep == <<kpc, closeRet, panicked>>' # <<kpc, closeRet, panicked>>

\* C19: s.quit is closed by the first Close and stays closed; that Close goes
\* on to return a value without a panic; every Close called while s.quit is
\* closed, with the reader still running or done, panics and returns nothing;
\* and the process panics in no other way.
C19_SecondClosePanics ==
    /\ [](quit = closeSnap.called /\ (panicked => (quit /\ closeRet # "none")))
    /\ [][quit => quit']_vars
    /\ [][(~quit /\ quit') =>
            (kpc = "idle" /\ kpc' = "closeRead" /\ ~panicked' /\ closeRet = "none")]_vars
    /\ [][(kpc = "closeRead" /\ CloseStep) =>
            (kpc' = "idle" /\ closeRet' # "none" /\ ~panicked')]_vars
    /\ [][(quit /\ kpc = "idle" /\ CloseStep) =>
            (panicked' /\ closeRet' = closeRet /\ kpc' = kpc)]_vars
    /\ [][panicked' # panicked => (quit /\ kpc = "idle" /\ panicked')]_vars

C19_Witness ==
    /\ panicked
    /\ quit /\ closeRet = "nil" /\ kpc = "idle"
    /\ rpc = "read" /\ bodyCloses = 0
    /\ delivered = <<RowA>>

\* C20: a reader that reaches the handoff with no Scan waiting and s.quit open
\* parks there; while it is parked s.quit and s.rows are open and the body is
\* not closed; and it leaves only by a Scan call that receives its row or by
\* the Close call that closes s.quit, so with neither it stays parked; the
\* body is closed only after exhaustion, an error, or Close.
C20_BlockedWithoutScan ==
    /\ [](rpc = "sendParked" =>
            (~quit /\ ~rowsClosed /\ bodyCloses = 0 /\ ~LeftLoop /\ cpc # "scanParked"))
    /\ [][(rpc = "send" /\ rpc' # rpc /\ ~quit /\ cpc # "scanParked") =>
            rpc' = "sendParked"]_vars
    /\ [][(rpc = "sendParked" /\ rpc' # rpc) =>
            \/ /\ cpc = "idle" /\ cpc' = "scanRet"
               /\ pending' = [case |-> "rows", row |-> rrow, ok |-> TRUE]
            \/ /\ ~quit /\ quit' /\ kpc = "idle" /\ kpc' = "closeRead"
               /\ rpc' = "deferBody"]_vars
    /\ [](bodyCloses > 0 => (Exhausted \/ Broke \/ quit))

C20_Witness ==
    /\ rpc = "sendParked"
    /\ lines = <<HeaderLine, CommaRow("a"), MarkerRow("b")>>
    /\ decoded = <<RowA, RowB>> /\ delivered = <<RowA>>
    /\ cpc = "idle" /\ scanRet = "true" /\ errRet = "nil"
    /\ ~quit /\ ~rowsClosed /\ bodyCloses = 0

=============================================================================
